---------------------------- MODULE Spec2Model ----------------------------
(***************************************************************************)
(* A model of lib.reviews: the ErrorMessage class and the search wrapper   *)
(* (src/search.js), the flash-error helper, the render helpers and the     *)
(* thing routes (src/routes), and the browser side editor glue             *)
(* (src/unnamed/part_000): the editor-switcher pin, the rich-text editor   *)
(* instances and the markdown/RTE mode switcher.                           *)
(*                                                                         *)
(* Text that is escaped is a sequence of one-character strings; property   *)
(* keys, view names and message keys that are only compared are strings.   *)
(***************************************************************************)
EXTENDS Integers, Sequences, FiniteSets, TLC

VARIABLES
  \* ---- ErrorMessage and flashErrorMessage exercised on their own
  emArgs,      \* arguments of the last `new ErrorMessage(...)`
  emOutcome,   \* "none" | "ok" | "throw": how that construction ended
  em,          \* the ErrorMessage object that exists, or NoObject
  emArr,       \* result of the last toArray() on em, or NotCalled
  emEsc,       \* result of the last toEscapedArray() on em, or NotCalled
  feErr,       \* an ErrorMessage a caller of flashErrorMessage holds
  feCall,      \* last flashErrorMessage call: its arguments and the req before
  feReq,       \* the req (its session flash store) flashErrorMessage works on
  debugLog,    \* what debug.error has received, in order
  \* ---- search.js: query building
  soArgs,      \* arguments of the last getSearchOptions call
  soResult,    \* what that call returned
  soPrev,      \* arguments and result of the getSearchOptions call before it
  searchReq,   \* the last request handed to client.search
  \* ---- search.js: index maintenance
  ixCalls,     \* the calls of indexThing, ... made so far, with their promises
  ixRequests,  \* the requests the search client has received, in order
  \* ---- the editor-switcher pin
  serverPref,  \* the user's prefersRichTextEditor preference, as stored
  pins,        \* the classes and the title of every .editor-switcher-pin
  errorHidden, \* whether #generic-action-error has the class 'hidden'
  clicks,      \* one entry per click on a pin: its closure and its request
  pinsAtLoad,  \* pins as the server rendered them
  \* ---- the thing routes
  dbThing,     \* the current revision of the thing, as stored
  dbSaves,     \* the revisions saved by the requests, in order
  reqs,        \* the requests: where each is in its handler, its req and res
  \* ---- the rich-text editor and its mode switcher
  page         \* the page: counter, rtes, textareas, switchers, event handlers

searchVars == <<soArgs, soResult, soPrev, searchReq>>
indexVars == <<ixCalls, ixRequests>>
pinVars == <<serverPref, pins, errorHidden, clicks, pinsAtLoad>>
routeVars == <<dbThing, dbSaves, reqs>>
errVars == <<emArgs, emOutcome, em, emArr, emEsc>>
flashVars == <<feErr, feCall, feReq, debugLog>>
editorVars == <<page>>

vars == <<errVars, flashVars, searchVars, indexVars, pinVars, routeVars, editorVars>>

-----------------------------------------------------------------------------
(* JavaScript values *)

JSUndefined == [t |-> "undefined"]
JSNull == [t |-> "null"]
JSObject == [t |-> "object"]
JSError == [t |-> "Error"]
JSStr(s) == [t |-> "string", v |-> s]
JSNum(n) == [t |-> "number", v |-> n]
JSBool(b) == [t |-> "boolean", v |-> b]
JSArr(a) == [t |-> "array", v |-> a]

\* ToBoolean, as used by `!x` and `x && ...`
Truthy(x) ==
  CASE x.t = "undefined" -> FALSE
    [] x.t = "null" -> FALSE
    [] x.t = "string" -> x.v # <<>>
    [] x.t = "number" -> x.v # 0
    [] x.t = "boolean" -> x.v
    [] OTHER -> TRUE

IsArray(x) == x.t = "array"

\* '' + x for the values that reach escapeHTML
ToStringChars(x) ==
  CASE x.t = "string" -> x.v
    [] x.t = "undefined" -> <<"u", "n", "d", "e", "f", "i", "n", "e", "d">>
    [] x.t = "null" -> <<"n", "u", "l", "l">>
    [] OTHER -> <<"[", "o", "b", "j", "]">>

EscapeChar(c) ==
  CASE c = "&" -> <<"&", "a", "m", "p", ";">>
    [] c = "<" -> <<"&", "l", "t", ";">>
    [] c = ">" -> <<"&", "g", "t", ";">>
    [] c = "\"" -> <<"&", "q", "u", "o", "t", ";">>
    [] c = "'" -> <<"&", "#", "3", "9", ";">>
    [] OTHER -> <<c>>

RECURSIVE EscapeChars(_)
EscapeChars(s) ==
  IF s = <<>> THEN <<>> ELSE EscapeChar(Head(s)) \o EscapeChars(Tail(s))

\* escape-html: the argument is converted to a string, then & < > " ' are
\* replaced by their entities
escapeHTML(x) == EscapeChars(ToStringChars(x))

-----------------------------------------------------------------------------
(* class ErrorMessage *)

Throw(msg) == [threw |-> TRUE, error |-> msg]
Return(obj) == [threw |-> FALSE, obj |-> obj]

NoObject == [t |-> "none"]
NoArgs == [given |-> FALSE]
NotCalled == [called |-> FALSE]
Called(a) == [called |-> TRUE, value |-> a]

\* msgParams.forEach(ele => { if (typeof ele !== 'string') throw ... })
HasNonString(params) == \E i \in 1..Len(params) : params[i].t # "string"

\* The constructor with its first check left out
ConstructorWithoutKeyCheck(msgKey, msgParams, originalError) ==
  IF Truthy(msgParams) /\ ~IsArray(msgParams)
  THEN Throw("Message parameters must be provided as an array.")
  ELSE LET params == IF ~Truthy(msgParams) THEN <<>> ELSE msgParams.v
       IN IF HasNonString(params)
          THEN Throw("Message parameters must be strings.")
          ELSE Return([t |-> "ErrorMessage", msgKey |-> msgKey,
                       msgParams |-> params, originalError |-> originalError])

ErrorMessageConstructor(msgKey, msgParams, originalError) ==
  IF ~Truthy(msgKey)
  THEN Throw("Must provide at least a message key for the error.")
  ELSE IF Truthy(msgParams) /\ ~IsArray(msgParams)
  THEN Throw("Message parameters must be provided as an array.")
  ELSE LET params == IF ~Truthy(msgParams) THEN <<>> ELSE msgParams.v
       IN IF HasNonString(params)
          THEN Throw("Message parameters must be strings.")
          ELSE Return([t |-> "ErrorMessage", msgKey |-> msgKey,
                       msgParams |-> params, originalError |-> originalError])

toArray(e) == <<e.msgKey>> \o e.msgParams

\* toEscapedArray escaping the message key as well
EscapedArrayEscapingKey(e) ==
  [i \in 1..(Len(e.msgParams) + 1) |-> JSStr(escapeHTML((<<e.msgKey>> \o e.msgParams)[i]))]

toEscapedArray(e) ==
  <<e.msgKey>> \o [i \in 1..Len(e.msgParams) |-> JSStr(escapeHTML(e.msgParams[i]))]

-----------------------------------------------------------------------------
(* req: the part of an Express request the helpers use.  req.flash is       *)
(* connect-flash: req.flash(key, msg) appends msg to the list kept under    *)
(* key, req.flash(key) returns that list and empties it.                    *)

FlashKeys == {"errors", "pageErrors", "siteMessages", "siteErrors"}
EmptyFlash == [k \in FlashKeys |-> <<>>]

FlashAdd(req, key, msg) ==
  [req EXCEPT !.flash = [@ EXCEPT ![key] = Append(@, msg)]]
FlashRead(req, key) == req.flash[key]
FlashTake(req, key) == [req EXCEPT !.flash = [@ EXCEPT ![key] = <<>>]]

\* req.__(phrase, ...args): the localized, formatted message
Translate(arr) == [phrase |-> Head(arr), args |-> Tail(arr)]

UnknownErrorKey ==
  JSStr(<<"u", "n", "k", "n", "o", "w", "n", " ", "e", "r", "r", "o", "r">>)

\* x.constructor.name for a value x that is neither undefined nor null
ConstructorName(x) ==
  CASE x.t = "string" -> "String"
    [] x.t = "number" -> "Number"
    [] x.t = "boolean" -> "Boolean"
    [] x.t = "array" -> "Array"
    [] x.t = "object" -> "Object"
    [] x.t = "Error" -> "Error"
    [] x.t = "ErrorMessage" -> "ErrorMessage"

IsErrorMessage(x) == Truthy(x) /\ ConstructorName(x) = "ErrorMessage"

\* debug.error(obj): one entry in the diagnostic log
DebugError(log, entry) == Append(log, entry)

\* flashErrorMessage logging the ErrorMessage case too
FlashLogsEverything(req, log, errorMessage, context) ==
  IF IsErrorMessage(errorMessage)
  THEN [req |-> FlashAdd(req, "errors", Translate(toEscapedArray(errorMessage))),
        log |-> DebugError(log, [context |-> context, error |-> errorMessage])]
  ELSE [req |-> FlashAdd(req, "errors", Translate(<<UnknownErrorKey>>)),
        log |-> DebugError(log, [context |-> context, error |-> errorMessage])]

\* flashErrorMessage(req, errorMessage, context): the req and the log after
flashErrorMessage(req, log, errorMessage, context) ==
  IF IsErrorMessage(errorMessage)
  THEN [req |-> FlashAdd(req, "errors", Translate(toEscapedArray(errorMessage))),
        log |-> log]
  ELSE [req |-> FlashAdd(req, "errors", Translate(<<UnknownErrorKey>>)),
        log |-> DebugError(log, [context |-> context, error |-> errorMessage])]

-----------------------------------------------------------------------------
(* ErrorMessage and flashErrorMessage called with every kind of argument *)

MaxParams == 2
MaxLog == 2

RECURSIVE SeqsUpTo(_, _)
SeqsUpTo(S, n) ==
  IF n = 0 THEN {<<>>}
  ELSE LET shorter == SeqsUpTo(S, n - 1)
       IN shorter \cup {Append(q, x) : q \in shorter, x \in S}

KeyInputs ==
  {JSUndefined, JSNull, JSStr(<<>>), JSNum(0),
   JSStr(<<"k">>), JSStr(<<"<", "k", ">">>)}

ElementInputs == {JSStr(<<"a">>), JSStr(<<"<", "&", "'">>), JSNum(1)}

NonArrayInputs ==
  {JSStr(<<>>), JSStr(<<"a">>), JSNum(0), JSNum(1), JSBool(FALSE), JSBool(TRUE),
   JSNull, JSObject}

ParamInputs ==
  {JSUndefined} \cup NonArrayInputs
    \cup {JSArr(a) : a \in SeqsUpTo(ElementInputs, MaxParams)}

Contexts == {"editing label - saving", "editing label - creating new revision"}

ReqInputs ==
  {[flash |-> EmptyFlash],
   [flash |-> [EmptyFlash EXCEPT !["errors"] = <<Translate(<<JSStr(<<"o", "l", "d">>)>>)>>,
                                 !["pageErrors"] = <<Translate(<<JSStr(<<"p">>)>>)>>]]}

NoCall == [made |-> FALSE]

\* The other subsystems at rest
FlashIdle ==
  /\ feErr = NoObject
  /\ feCall = NoCall
  /\ feReq = [flash |-> EmptyFlash]
  /\ debugLog = <<>>

ErrIdle ==
  /\ emArgs = NoArgs
  /\ emOutcome = "none"
  /\ em = NoObject
  /\ emArr = NotCalled
  /\ emEsc = NotCalled

SearchIdle ==
  /\ soArgs = NoCall
  /\ soResult = NoCall
  /\ soPrev = NoCall
  /\ searchReq = NoCall

IndexIdle ==
  /\ ixCalls = <<>>
  /\ ixRequests = <<>>

RouteIdle ==
  /\ dbThing = NoObject
  /\ dbSaves = <<>>
  /\ reqs = <<>>

EditorIdle == page = NoObject

PinIdle ==
  /\ serverPref = FALSE
  /\ pins = <<>>
  /\ errorHidden = TRUE
  /\ clicks = <<>>
  /\ pinsAtLoad = <<>>

ErrInit ==
  /\ EditorIdle
  /\ RouteIdle
  /\ PinIdle
  /\ SearchIdle
  /\ IndexIdle
  /\ emArgs \in [given : {TRUE}, msgKey : KeyInputs, msgParams : ParamInputs]
  /\ emOutcome = "none"
  /\ em = NoObject
  /\ emArr = NotCalled
  /\ emEsc = NotCalled
  /\ FlashIdle

\* new ErrorMessage(msgKey, msgParams)
Construct ==
  /\ emOutcome = "none"
  /\ LET r == ErrorMessageConstructor(emArgs.msgKey, emArgs.msgParams, JSUndefined)
     IN /\ emOutcome' = IF r.threw THEN "throw" ELSE "ok"
        /\ em' = IF r.threw THEN NoObject ELSE r.obj
  /\ UNCHANGED <<emArgs, emArr, emEsc, flashVars, searchVars, indexVars, pinVars, editorVars, routeVars>>

CallToArray ==
  /\ em # NoObject
  /\ emArr' = Called(toArray(em))
  /\ UNCHANGED <<emArgs, emOutcome, em, emEsc, flashVars, searchVars, indexVars, pinVars, editorVars, routeVars>>

CallToEscapedArray ==
  /\ em # NoObject
  /\ emEsc' = Called(toEscapedArray(em))
  /\ UNCHANGED <<emArgs, emOutcome, em, emArr, flashVars, searchVars, indexVars, pinVars, editorVars, routeVars>>

\* What the constructor's caller passed as msgParams, as a list
GivenParams == IF IsArray(emArgs.msgParams) THEN emArgs.msgParams.v ELSE <<>>

HasSpecialChar(x) == \E i \in 1..Len(x.v) : x.v[i] \in {"&", "<", ">", "\"", "'"}

\* C4: for every constructed ErrorMessage, toEscapedArray() is as long as
\* toArray(), both start with the unmodified msgKey, every later entry of
\* toEscapedArray() is the HTML-escaped entry of toArray() at that position,
\* and the stored msgParams stay what the constructor stored.
C4_EscapedArrayMatchesArray ==
  /\ emArr.called =>
       /\ em # NoObject
       /\ Len(emArr.value) = Len(GivenParams) + 1
       /\ emArr.value[1] = emArgs.msgKey
       /\ \A i \in 1..Len(GivenParams) : emArr.value[i + 1] = GivenParams[i]
       /\ em.msgParams = GivenParams
  /\ emEsc.called =>
       /\ em # NoObject
       /\ Len(emEsc.value) = Len(GivenParams) + 1
       /\ emEsc.value[1] = emArgs.msgKey
       /\ em.msgParams = GivenParams
  /\ (emArr.called /\ emEsc.called) =>
       /\ Len(emEsc.value) = Len(emArr.value)
       /\ \A i \in 2..Len(emArr.value) :
            emEsc.value[i] = JSStr(escapeHTML(emArr.value[i]))

C4_Witness ==
  /\ emArr.called
  /\ emEsc.called
  /\ Len(em.msgParams) = MaxParams
  /\ HasSpecialChar(em.msgKey)
  /\ \E i \in 1..Len(em.msgParams) : emEsc.value[i + 1] # emArr.value[i + 1]

\* C5: construction throws for every msgParams that is not an array and for
\* every array holding a non-string; an omitted msgParams is accepted as the
\* empty list.
C5_NonArrayParamsRejected ==
  (emOutcome # "none" /\ Truthy(emArgs.msgKey)) =>
    /\ emArgs.msgParams.t \notin {"array", "undefined"} =>
         (emOutcome = "throw" /\ em = NoObject)
    /\ (IsArray(emArgs.msgParams) /\ HasNonString(emArgs.msgParams.v)) =>
         (emOutcome = "throw" /\ em = NoObject)
    /\ emArgs.msgParams = JSUndefined =>
         (emOutcome = "ok" /\ em # NoObject /\ em.msgParams = <<>>)

\* C6: every ErrorMessage that exists has a present, non-empty message key
\* and only strings as parameters, also after toArray() and toEscapedArray();
\* a missing or empty msgKey makes the constructor throw.
C6_KeyPresentParamsStrings ==
  /\ em # NoObject =>
       /\ em.msgKey.t \notin {"undefined", "null"}
       /\ em.msgKey # JSStr(<<>>)
       /\ \A i \in 1..Len(em.msgParams) : em.msgParams[i].t = "string"
  /\ (emOutcome # "none" /\ emArgs.msgKey \in {JSUndefined, JSNull, JSStr(<<>>)}) =>
       (emOutcome = "throw" /\ em = NoObject)

C6_Witness ==
  /\ em # NoObject
  /\ Len(em.msgParams) > 0
  /\ emArr.called
  /\ emEsc.called
  /\ emArgs.msgParams.t = "array"

ErrNext == Construct \/ CallToArray \/ CallToEscapedArray

SpecErr == ErrInit /\ [][ErrNext]_vars

-----------------------------------------------------------------------------
(* flashErrorMessage called with every kind of error value *)

OtherErrorInputs == {JSError, JSStr(<<"b", "o", "o", "m">>), JSUndefined, JSNull}

\* The ErrorMessage objects a caller can hold
ErrorMessageInputs ==
  {ErrorMessageConstructor(k, JSArr(a), JSUndefined).obj :
     k \in {JSStr(<<"k">>)}, a \in SeqsUpTo({x \in ElementInputs : x.t = "string"}, MaxParams)}

FlashInit ==
  /\ EditorIdle
  /\ RouteIdle
  /\ PinIdle
  /\ ErrIdle
  /\ SearchIdle
  /\ IndexIdle
  /\ feErr \in ErrorMessageInputs
  /\ feCall = NoCall
  /\ feReq = [flash |-> EmptyFlash]
  /\ debugLog = <<>>

CallFlashError ==
  /\ Len(debugLog) < MaxLog
  /\ \E req \in ReqInputs, ctx \in Contexts, e \in OtherErrorInputs \cup {feErr} :
       LET r == flashErrorMessage(req, debugLog, e, ctx)
       IN /\ feCall' = [made |-> TRUE, req |-> req, log |-> debugLog,
                        errorMessage |-> e, context |-> ctx]
          /\ feReq' = r.req
          /\ debugLog' = r.log
  /\ UNCHANGED <<feErr, errVars, searchVars, indexVars, pinVars, editorVars, routeVars>>

Last(q) == q[Len(q)]

\* C9: a call flashes exactly one message, under 'errors': for an ErrorMessage
\* the localized text of its key with its HTML-escaped parameters, and nothing
\* is logged; for every other value the localized 'unknown error', and the
\* value goes to debug.error together with the context.
C9_FlashesOneMessage ==
  feCall.made =>
    LET before == feCall.req.flash
        after == feReq.flash
        e == feCall.errorMessage
    IN /\ \A k \in FlashKeys \ {"errors"} : after[k] = before[k]
       /\ Len(after["errors"]) = Len(before["errors"]) + 1
       /\ SubSeq(after["errors"], 1, Len(before["errors"])) = before["errors"]
       /\ IF e.t = "ErrorMessage"
          THEN /\ Last(after["errors"]) =
                    [phrase |-> e.msgKey,
                     args |-> [i \in 1..Len(e.msgParams) |->
                                 JSStr(escapeHTML(e.msgParams[i]))]]
               /\ debugLog = feCall.log
          ELSE /\ Last(after["errors"]) = [phrase |-> UnknownErrorKey, args |-> <<>>]
               /\ debugLog = Append(feCall.log,
                                    [context |-> feCall.context, error |-> e])

C9_Witness ==
  /\ feCall.made
  /\ feCall.errorMessage.t = "ErrorMessage"
  /\ \E i \in 1..Len(feCall.errorMessage.msgParams) :
       HasSpecialChar(feCall.errorMessage.msgParams[i])
  /\ feCall.req.flash["errors"] # <<>>
  /\ Len(debugLog) = 1

FlashNext == CallFlashError

SpecFlash == FlashInit /\ [][FlashNext]_vars

-----------------------------------------------------------------------------
(* search.js: language fallback and query building *)

\* locales/languages: the supported display languages and, for each, the
\* languages to fall back to ('eo' stands for the display languages the
\* search engine has no stemmer for).  A chain ends with the default language 'en',
\* names no language twice and, except for 'en', does not name the language
\* it belongs to; getFallbacks hands out a list of its own on every call.
Languages == {"en", "fr", "de", "eo", "pt", "pt-PT", "zh-Hant"}

getFallbacks(lang) ==
  CASE lang = "pt" -> <<"pt-PT", "en">>
    [] lang = "pt-PT" -> <<"pt", "en">>
    [] lang = "zh-Hant" -> <<"zh", "en">>
    [] OTHER -> <<"en">>

\* `${fieldPrefix}.${lang}${suffix}`
FieldName(fieldPrefix, lang, suffix) == <<fieldPrefix, lang, suffix>>

HighlightTags ==
  [pre_tags |-> <<"<span class=\"search-highlight\">">>, post_tags |-> <<"</span>">>]

\* getSearchOptions putting the requested language first unconditionally
GetSearchOptionsAlwaysUnshift(type, fieldPrefix, lang) ==
  LET langs == <<lang>> \o getFallbacks(lang)
  IN [fields |-> [i \in 1..Len(langs) |-> FieldName(fieldPrefix, langs[i], "*")],
      highlight |-> [pre_tags |-> HighlightTags.pre_tags,
                     post_tags |-> HighlightTags.post_tags,
                     fields |-> {FieldName(fieldPrefix, langs[i], "") : i \in 1..Len(langs)}]]

getSearchOptions(type, fieldPrefix, lang) ==
  LET fallbacks == getFallbacks(lang)
      langs == IF lang # "en" THEN <<lang>> \o fallbacks ELSE fallbacks
  IN [fields |-> [i \in 1..Len(langs) |-> FieldName(fieldPrefix, langs[i], "*")],
      highlight |-> [pre_tags |-> HighlightTags.pre_tags,
                     post_tags |-> HighlightTags.post_tags,
                     fields |-> {FieldName(fieldPrefix, langs[i], "") : i \in 1..Len(langs)}]]

\* The request searchThings(query, lang) hands to client.search
searchThings(query, lang) ==
  LET options == getSearchOptions("things", "label", lang)
  IN [index |-> "libreviews", type |-> "things", join |-> "none",
      fields |-> options.fields, query |-> query, default_operator |-> "and",
      highlight |-> options.highlight]

\* The request searchReviews(query, lang) hands to client.search
searchReviews(query, lang) ==
  LET options == getSearchOptions("reviews", "text", lang)
  IN [index |-> "libreviews", type |-> "things", join |-> "has_child reviews",
      fields |-> options.fields, query |-> query, default_operator |-> "and",
      highlight |-> options.highlight]

\* obj[key] = value on an object whose keys are kept in insertion order
ObjectSet(obj, key, value) ==
  IF \E i \in 1..Len(obj) : obj[i].key = key
    THEN [i \in 1..Len(obj) |-> IF obj[i].key = key THEN [key |-> key, value |-> value]
                                                   ELSE obj[i]]
    ELSE Append(obj, [key |-> key, value |-> value])

RECURSIVE SuggestEntries(_, _, _, _)
\* for (let currentLanguage of langs) query.body.suggest[...] = {...}
SuggestEntries(suggest, prefix, langs, i) ==
  IF i > Len(langs) THEN suggest
  ELSE SuggestEntries(
         ObjectSet(suggest, <<"labels-", langs[i]>>,
                   [prefix |-> prefix,
                    completion |-> [field |-> FieldName("label", langs[i], ".completion")]]),
         prefix, langs, i + 1)

\* suggestThing asking for the fallbacks alone
SuggestFallbacksOnly(prefix, lang) ==
  [index |-> "libreviews", type |-> "things",
   body |-> [suggest |-> SuggestEntries(<<>>, prefix, getFallbacks(lang), 1)]]

\* The request suggestThing(prefix, lang) hands to client.search
suggestThing(prefix, lang) ==
  LET fallbacks == getFallbacks(lang)
      langs == IF lang # "en" THEN <<lang>> \o fallbacks ELSE fallbacks
  IN [index |-> "libreviews", type |-> "things",
      body |-> [suggest |-> SuggestEntries(<<>>, prefix, langs, 1)]]

Queries == {"tea", "tea +pot"}
Prefixes == {<<>>, <<"t", "e">>}

SearchInit ==
  /\ EditorIdle
  /\ RouteIdle
  /\ PinIdle
  /\ ErrIdle
  /\ FlashIdle
  /\ IndexIdle
  /\ SearchIdle

CallGetSearchOptions ==
  \E lang \in Languages, tf \in {<<"things", "label">>, <<"reviews", "text">>} :
    /\ soArgs' = [made |-> TRUE, type |-> tf[1], fieldPrefix |-> tf[2], lang |-> lang]
    /\ soResult' = getSearchOptions(tf[1], tf[2], lang)
    /\ soPrev' = IF soArgs = NoCall THEN NoCall
                 ELSE [made |-> TRUE, args |-> soArgs, result |-> soResult]
    /\ UNCHANGED <<searchReq, errVars, flashVars, indexVars, pinVars, editorVars, routeVars>>

\* lang = 'en' is the default of an omitted language
CallSearchThings ==
  \E query \in Queries, lang \in Languages :
    /\ searchReq' = searchThings(query, lang)
    /\ UNCHANGED <<soArgs, soResult, soPrev, errVars, flashVars, indexVars, pinVars, editorVars, routeVars>>

CallSearchReviews ==
  \E query \in Queries, lang \in Languages :
    /\ searchReq' = searchReviews(query, lang)
    /\ UNCHANGED <<soArgs, soResult, soPrev, errVars, flashVars, indexVars, pinVars, editorVars, routeVars>>

\* prefix = '' and lang = 'en' are the defaults of omitted arguments
SuggestThingCalled(prefix, lang) ==
  /\ searchReq' = suggestThing(prefix, lang)
  /\ UNCHANGED <<soArgs, soResult, soPrev, errVars, flashVars, indexVars, pinVars, editorVars, routeVars>>

CallSuggestThing == \E prefix \in Prefixes, lang \in Languages : SuggestThingCalled(prefix, lang)

NoDuplicates(q) == \A i, j \in 1..Len(q) : i # j => q[i] # q[j]

C14_OneCompletionPerChainLanguage ==
  [][\A prefix \in Prefixes, lang \in Languages :
       SuggestThingCalled(prefix, lang) =>
         LET suggest == searchReq'.body.suggest
             chain == getFallbacks(lang)
             langs == [i \in 1..Len(suggest) |-> suggest[i].key[2]]
         IN /\ searchReq'.index = "libreviews"
            /\ searchReq'.type = "things"
            /\ Head(langs) = lang
            /\ langs[Len(langs)] = "en"
            /\ NoDuplicates(langs)
            /\ IF lang = "en" THEN langs = <<"en">> ELSE Tail(langs) = chain
            /\ \A i \in 1..Len(suggest) :
                 /\ suggest[i].key = <<"labels-", langs[i]>>
                 /\ suggest[i].value.prefix = prefix
                 /\ suggest[i].value.completion.field =
                      <<"label", langs[i], ".completion">>]_vars

C14_Witness ==
  /\ searchReq # NoCall
  /\ "body" \in DOMAIN searchReq
  /\ Len(searchReq.body.suggest) = 3
  /\ searchReq.body.suggest[1].key = <<"labels-", "pt">>
  /\ searchReq.body.suggest[1].value.prefix = <<"t", "e">>

SearchNext ==
  CallGetSearchOptions \/ CallSearchThings \/ CallSearchReviews \/ CallSuggestThing

SpecSearch == SearchInit /\ [][SearchNext]_vars

-----------------------------------------------------------------------------
(* search.js: index maintenance.  Each function hands one request to the   *)
(* search client and returns the client's promise with a catch handler     *)
(* attached.  The documents' bodies are left out: no step depends on them; *)
(* the request of createIndices carries the mappings.                      *)

MaxCalls == 2

ThingDocs == {[id |-> "t1"]}
ReviewDocs == {[id |-> "r1", thingID |-> "t1", thing |-> [id |-> "t1"]]}
ClientErrors == {[t |-> "Error", message |-> "No Living connections"],
                 [t |-> "Error", message |-> "index_already_exists_exception"]}

\* A call right after the client was handed `request`
NewCall(op, request) ==
  [op |-> op, request |-> request, client |-> "pending", promise |-> "pending",
   value |-> JSUndefined]

indexReview(review) ==
  NewCall("indexReview", [api |-> "index", index |-> "libreviews", type |-> "reviews",
                          id |-> review.id, parent |-> review.thingID])

indexThing(thing) ==
  NewCall("indexThing", [api |-> "index", index |-> "libreviews", type |-> "things",
                         id |-> thing.id, parent |-> "none"])

deleteThing(thing) ==
  NewCall("deleteThing", [api |-> "delete", index |-> "libreviews", type |-> "things",
                          id |-> thing.id, parent |-> "none"])

deleteReview(review) ==
  NewCall("deleteReview", [api |-> "delete", index |-> "libreviews", type |-> "reviews",
                           id |-> review.id, parent |-> review.thing.id])

\* All supported stemmers: language and analyzer, in the table's order
analyzers ==
  << <<"ar", "arabic">>, <<"hy", "armenian">>, <<"eu", "basque">>,
     <<"pt", "brazilian">>, <<"bg", "bulgarian">>, <<"ca", "catalan">>,
     <<"zh", "cjk">>, <<"zh-Hant", "cjk">>, <<"cs", "czech">>, <<"da", "danish">>,
     <<"nl", "dutch">>, <<"en", "english">>, <<"fi", "finnish">>,
     <<"fr", "french">>, <<"gl", "galician">>, <<"de", "german">>,
     <<"el", "greek">>, <<"hi", "hindi">>, <<"hu", "hungarian">>,
     <<"id", "indonesian">>, <<"ga", "irish">>, <<"it", "italian">>,
     <<"lv", "latvian">>, <<"lt", "lithuanian">>, <<"no", "norwegian">>,
     <<"fa", "persian">>, <<"pt-PT", "portuguese">>, <<"ro", "romanian">>,
     <<"ru", "russian">>, <<"ckb", "sorani">>, <<"es", "spanish">>,
     <<"sv", "swedish">>, <<"tr", "turkish">>, <<"th", "thai">> >>

\* for (let lang in analyzers)
AnalyzerLanguages == {analyzers[i][1] : i \in 1..Len(analyzers)}
\* analyzers[lang]
AnalyzerOf(lang) == analyzers[CHOOSE i \in 1..Len(analyzers) : analyzers[i][1] = lang][2]

getURLProperties ==
  [type |-> "text",
   fields |-> [raw |-> [type |-> "keyword"],
               simple |-> [type |-> "text", analyzer |-> "simple"]]]

ProcessedField(lang) ==
  [type |-> "text", analyzer |-> AnalyzerOf(lang), index_options |-> "offsets"]

CompletionField ==
  [type |-> "completion", analyzer |-> "label", max_input_length |-> 256]

\* getMultilingualTextProperties declaring the supported display languages
PropertiesOfDisplayLanguages(completionMapping) ==
  [properties |->
     [lang \in Languages \cap AnalyzerLanguages |->
        [type |-> "text", index_options |-> "offsets",
         fields |-> IF completionMapping
                      THEN [processed |-> ProcessedField(lang),
                            completion |-> CompletionField]
                      ELSE [processed |-> ProcessedField(lang)]]]]

getMultilingualTextProperties(completionMapping) ==
  [properties |->
     [lang \in AnalyzerLanguages |->
        [type |-> "text", index_options |-> "offsets",
         fields |-> IF completionMapping
                      THEN [processed |-> ProcessedField(lang),
                            completion |-> CompletionField]
                      ELSE [processed |-> ProcessedField(lang)]]]]

createIndices ==
  NewCall("createIndices",
    [api |-> "indices.create", index |-> "libreviews",
     type |-> "none", id |-> "none", parent |-> "none",
     body |->
       [settings |->
          [analysis |->
             [tokenizer |-> [whitespace |-> [type |-> "whitespace"]],
              analyzer |-> [label |-> [type |-> "custom", tokenizer |-> "whitespace",
                                       filter |-> <<"trim", "lowercase">>]]]],
        mappings |->
          [reviews |->
             [_parent |-> [type |-> "things"],
              properties |->
                [createdOn |-> [type |-> "date"],
                 text |-> getMultilingualTextProperties(FALSE),
                 title |-> getMultilingualTextProperties(FALSE)]],
           things |->
             [properties |->
                [createdOn |-> [type |-> "date"],
                 urls |-> getURLProperties,
                 label |-> getMultilingualTextProperties(TRUE),
                 aliases |-> getMultilingualTextProperties(TRUE),
                 description |-> getMultilingualTextProperties(FALSE)]]]]])

\* A catch handler that logs and throws the error on
CatchRethrows(call, log, error) ==
  [call |-> [call EXCEPT !.client = "failed", !.promise = "rejected", !.value = error],
   log |-> DebugError(log, [error |-> error])]

\* .catch(error => debug.error({ error })): the handler returns what
\* debug.error returns, so the promise handed to the caller is fulfilled
CatchHandler(call, log, error) ==
  [call |-> [call EXCEPT !.client = "failed", !.promise = "fulfilled",
                         !.value = JSUndefined],
   log |-> DebugError(log, [error |-> error])]

IndexInit ==
  /\ EditorIdle
  /\ RouteIdle
  /\ PinIdle
  /\ ErrIdle
  /\ FlashIdle
  /\ SearchIdle
  /\ IndexIdle

Issue(call) ==
  /\ Len(ixCalls) < MaxCalls
  /\ ixCalls' = Append(ixCalls, call)
  /\ ixRequests' = Append(ixRequests, call.request)
  /\ UNCHANGED <<errVars, flashVars, searchVars, pinVars, editorVars, routeVars>>

CallIndexReview == \E review \in ReviewDocs : Issue(indexReview(review))
CallIndexThing == \E thing \in ThingDocs : Issue(indexThing(thing))
CallDeleteThing == \E thing \in ThingDocs : Issue(deleteThing(thing))
CallDeleteReview == \E review \in ReviewDocs : Issue(deleteReview(review))
CallCreateIndices == Issue(createIndices)

\* The client's request succeeds: the returned promise is fulfilled with
\* the response
ClientResolve ==
  \E i \in 1..Len(ixCalls) :
    /\ ixCalls[i].client = "pending"
    /\ ixCalls' = [ixCalls EXCEPT ![i] = [@ EXCEPT !.client = "ok",
                                                   !.promise = "fulfilled",
                                                   !.value = [t |-> "response"]]]
    /\ UNCHANGED <<ixRequests, errVars, flashVars, searchVars, pinVars, editorVars, routeVars>>

\* The client's request fails: the catch handler runs
ClientReject ==
  \E i \in 1..Len(ixCalls), error \in ClientErrors :
    /\ ixCalls[i].client = "pending"
    /\ LET r == CatchHandler(ixCalls[i], debugLog, error)
       IN /\ ixCalls' = [ixCalls EXCEPT ![i] = r.call]
          /\ debugLog' = r.log
    /\ UNCHANGED <<ixRequests, feErr, feCall, feReq, errVars, searchVars, pinVars, editorVars, routeVars>>

\* C8: whether the client's request succeeds or fails, the promise handed to
\* the caller is fulfilled, never rejected; a failure is passed to debug.error
\* exactly once, and the request is not sent again.
C8_FailuresLoggedNotThrown ==
  /\ \A i \in 1..Len(ixCalls) :
       /\ ixCalls[i].promise # "rejected"
       /\ ixCalls[i].client # "pending" => ixCalls[i].promise = "fulfilled"
  /\ Len(debugLog) = Cardinality({i \in 1..Len(ixCalls) : ixCalls[i].client = "failed"})
  /\ \A k \in 1..Len(debugLog) : debugLog[k].error \in ClientErrors
  /\ Len(ixRequests) = Len(ixCalls)

C8_Witness ==
  /\ Len(ixCalls) = MaxCalls
  /\ \E i \in 1..Len(ixCalls) :
       ixCalls[i].client = "failed" /\ ixCalls[i].promise = "fulfilled"
  /\ \E i \in 1..Len(ixCalls) :
       ixCalls[i].client = "ok" /\ ixCalls[i].promise = "fulfilled"
  /\ Len(debugLog) = 1

MultilingualFields ==
  {<<"reviews", "text">>, <<"reviews", "title">>, <<"things", "label">>,
   <<"things", "aliases">>, <<"things", "description">>}
CompletionFields == {<<"things", "label">>, <<"things", "aliases">>}

\* The language sub-fields the mapping of a request declares for a field
SubFields(request, f) == request.body.mappings[f[1]].properties[f[2]].properties

CreateRequests == {i \in 1..Len(ixRequests) : ixRequests[i].api = "indices.create"}

\* C15 (as stated): the mapping of createIndices declares, for each
\* multilingual field, a sub-field for every supported display language,
\* with a 'processed' sub-field that has a stemming analyzer of that
\* language; a 'completion' sub-field is declared for the languages of
\* things.label and things.aliases and for no other field.
C15_SubFieldPerDisplayLanguage ==
  \A i \in CreateRequests, f \in MultilingualFields :
    LET props == SubFields(ixRequests[i], f)
    IN /\ \A lang \in Languages :
            /\ lang \in DOMAIN props
            /\ props[lang].fields.processed.analyzer \notin {"standard", "label"}
       /\ \A lang \in DOMAIN props :
            ("completion" \in DOMAIN props[lang].fields) <=> (f \in CompletionFields)

\* C15 (amended): the mapping of createIndices declares, for each
\* multilingual field, one sub-field per language of the analyzers table
\* and no other, so none for a display language without a stemmer; each
\* has a 'processed' sub-field with the analyzer the table gives for the
\* language; a 'completion' sub-field is declared for the languages of
\* things.label and things.aliases and for no other field.
C15_SubFieldPerStemmerLanguage ==
  \A i \in CreateRequests, f \in MultilingualFields :
    LET props == SubFields(ixRequests[i], f)
    IN /\ DOMAIN props = AnalyzerLanguages
       /\ Cardinality(DOMAIN props) = Len(analyzers)
       /\ {"ar", "th", "zh"} \subseteq DOMAIN props
       /\ (Languages \ AnalyzerLanguages) \cap DOMAIN props = {}
       /\ \A k \in 1..Len(analyzers) :
            LET sub == props[analyzers[k][1]]
            IN /\ sub.type = "text"
               /\ sub.fields.processed.type = "text"
               /\ sub.fields.processed.analyzer = analyzers[k][2]
               /\ ("completion" \in DOMAIN sub.fields) <=> (f \in CompletionFields)
               /\ f \in CompletionFields => sub.fields.completion.type = "completion"
       /\ props["pt"].fields.processed.analyzer = "brazilian"
       /\ props["pt-PT"].fields.processed.analyzer = "portuguese"
       /\ props["zh-Hant"].fields.processed.analyzer = "cjk"

C15_Witness ==
  \E i \in CreateRequests :
    /\ ixCalls[i].client = "ok"
    /\ "eo" \in Languages
    /\ "eo" \notin DOMAIN SubFields(ixRequests[i], <<"things", "label">>)
    /\ "completion" \in DOMAIN SubFields(ixRequests[i], <<"things", "label">>)["en"].fields

\* Whether the mapping of createIndices declares the field, given as
\* <<'label', language, '.completion'>>, with the type 'completion'
DeclaredCompletion(field) ==
  LET props == SubFields(createIndices.request, <<"things", field[1]>>)
  IN /\ <<"things", field[1]>> \in MultilingualFields
     /\ field[3] = ".completion"
     /\ field[2] \in DOMAIN props
     /\ "completion" \in DOMAIN props[field[2]].fields
     /\ props[field[2]].fields.completion.type = "completion"

\* C22: every field suggestThing asks the search service to complete on,
\* 'label.L.completion' for each language L of the fallback chain of a
\* supported display language, is a field the mapping of createIndices
\* declares with the type 'completion'.
C22_SuggestedFieldsDeclared ==
  [][\A prefix \in Prefixes, lang \in Languages :
       SuggestThingCalled(prefix, lang) =>
         \A i \in 1..Len(searchReq'.body.suggest) :
           DeclaredCompletion(searchReq'.body.suggest[i].value.completion.field)]_vars

IndexNext ==
  \/ CallIndexReview
  \/ CallIndexThing
  \/ CallDeleteThing
  \/ CallDeleteReview
  \/ CallCreateIndices
  \/ ClientResolve
  \/ ClientReject

SpecIndex == IndexInit /\ [][IndexNext]_vars

-----------------------------------------------------------------------------
(* The editor-switcher pin: a click posts to /api/actions/toggle-preference/ *)
(* and restyles every pin of the page from the response.                     *)

MaxClicks == 2

Pins == {"pin1", "pin2"}

\* The server's handler of the endpoint: the stored preference is flipped
\* once per request received and the new value is sent back as a string
TogglePreference(pref) == [pref |-> ~pref, newValue |-> IF ~pref THEN "true" ELSE "false"]

\* A pin as the server renders it for a preference
RenderedPin(pref) ==
  [classes |-> {"fa-thumb-tack",
                IF pref THEN "editor-switcher-pinned" ELSE "editor-switcher-unpinned"},
   title |-> IF pref THEN "forget rte preference" ELSE "remember rte preference"]

spin(pin) ==
  [pin EXCEPT !.classes = (@ \ {"fa-thumb-tack"})
                            \cup {"fa-spinner", "fa-spin", "editor-switcher-working"}]

\* unspin that leaves the classes as they are
UnspinNothing(pin) == pin

unspin(pin) ==
  [pin EXCEPT !.classes = (@ \ {"fa-spinner", "fa-spin", "editor-switcher-working"})
                            \cup {"fa-thumb-tack"}]

\* The restyling of one pin in the done handler
Restyle(pin, newValue) ==
  IF newValue = "true"
  THEN [classes |-> (pin.classes \ {"editor-switcher-unpinned"})
                      \cup {"editor-switcher-pinned"},
        title |-> "forget rte preference"]
  ELSE [classes |-> (pin.classes \ {"editor-switcher-pinned"})
                      \cup {"editor-switcher-unpinned"},
        title |-> "remember rte preference"]

PinInit ==
  /\ EditorIdle
  /\ RouteIdle
  /\ ErrIdle
  /\ FlashIdle
  /\ SearchIdle
  /\ IndexIdle
  /\ serverPref \in BOOLEAN
  /\ pins = [p \in Pins |-> RenderedPin(serverPref)]
  /\ pinsAtLoad = pins
  /\ errorHidden = TRUE
  /\ clicks = <<>>

\* The click handler up to and including $.ajax: the timer is set and the
\* request is on its way
Click ==
  \E p \in Pins :
    /\ Len(clicks) < MaxClicks
    /\ clicks' = Append(clicks, [pin |-> p, done |-> FALSE, timer |-> "set",
                                 request |-> "sent", newValue |-> "none"])
    /\ UNCHANGED <<serverPref, pins, errorHidden, pinsAtLoad,
                   errVars, editorVars, flashVars, searchVars, indexVars, routeVars>>

\* A timer callback that does not look at done
TimerAlwaysSpins(click) == TRUE

\* if (!done)
TimerSpins(click) == ~click.done

\* setTimeout(() => { if (!done) spin(); }, 100)
TimerFires ==
  \E i \in 1..Len(clicks) :
    /\ clicks[i].timer = "set"
    /\ clicks' = [clicks EXCEPT ![i].timer = "fired"]
    /\ pins' = IF TimerSpins(clicks[i])
               THEN [pins EXCEPT ![clicks[i].pin] = spin(@)]
               ELSE pins
    /\ UNCHANGED <<serverPref, errorHidden, pinsAtLoad,
                   errVars, editorVars, flashVars, searchVars, indexVars, routeVars>>

\* The server receives a request, in whatever order the requests arrive
ServerReceives ==
  \E i \in 1..Len(clicks) :
    /\ clicks[i].request = "sent"
    /\ LET r == TogglePreference(serverPref)
       IN /\ serverPref' = r.pref
          /\ clicks' = [clicks EXCEPT ![i].request = "answered",
                                      ![i].newValue = r.newValue]
    /\ UNCHANGED <<pins, errorHidden, pinsAtLoad,
                   errVars, editorVars, flashVars, searchVars, indexVars, routeVars>>

\* .done(res => ...): a response is handled, in whatever order they arrive
AjaxDone ==
  \E i \in 1..Len(clicks) :
    /\ clicks[i].request = "answered"
    /\ clicks' = [clicks EXCEPT ![i].request = "handled", ![i].done = TRUE]
    /\ pins' = [p \in Pins |->
                  Restyle(IF p = clicks[i].pin THEN unspin(pins[p]) ELSE pins[p],
                          clicks[i].newValue)]
    /\ UNCHANGED <<serverPref, errorHidden, pinsAtLoad,
                   errVars, editorVars, flashVars, searchVars, indexVars, routeVars>>

\* .fail(() => ...): the request or its response is lost
AjaxFail ==
  \E i \in 1..Len(clicks) :
    /\ clicks[i].request \in {"sent", "answered"}
    /\ clicks' = [clicks EXCEPT ![i].request = "failed", ![i].done = TRUE]
    /\ pins' = [pins EXCEPT ![clicks[i].pin] = unspin(@)]
    /\ errorHidden' = FALSE
    /\ UNCHANGED <<serverPref, pinsAtLoad, errVars, editorVars, flashVars, searchVars, indexVars,
                   routeVars>>

PinnedClasses(pin) ==
  pin.classes \cap {"editor-switcher-pinned", "editor-switcher-unpinned"}

\* C3: after two clicks whose two responses have both been handled, every
\* pin shows the pinned/unpinned class it showed before the first click,
\* whatever the order of the clicks and the responses.
C3_TwoTogglesRestorePins ==
  (Len(clicks) = 2 /\ \A i \in 1..2 : clicks[i].request = "handled") =>
    \A p \in Pins : PinnedClasses(pins[p]) = PinnedClasses(pinsAtLoad[p])

SpinnerClasses == {"fa-spinner", "fa-spin", "editor-switcher-working"}

\* C16: the step in which a toggle-preference request fails makes the
\* generic action error visible, leaves the clicked pin without the spinner
\* classes and with the thumb-tack, and changes the pinned/unpinned class
\* and the title of no pin.
C16_FailureShowsErrorKeepsPins ==
  [][\A i \in 1..Len(clicks) :
       (clicks[i].request \in {"sent", "answered"} /\ clicks'[i].request = "failed") =>
         /\ ~errorHidden'
         /\ pins'[clicks[i].pin].classes \cap SpinnerClasses = {}
         /\ "fa-thumb-tack" \in pins'[clicks[i].pin].classes
         /\ \A p \in Pins :
              /\ PinnedClasses(pins'[p]) = PinnedClasses(pins[p])
              /\ pins'[p].title = pins[p].title]_vars

C16_Witness ==
  \E i \in 1..Len(clicks) :
    /\ clicks[i].request = "failed"
    /\ clicks[i].timer = "fired"
    /\ ~errorHidden
    /\ "fa-thumb-tack" \in pins[clicks[i].pin].classes
    /\ pins = pinsAtLoad

Settled ==
  \A i \in 1..Len(clicks) :
    clicks[i].request \in {"handled", "failed"} /\ clicks[i].timer = "fired"

\* C20: once every toggle-preference request has completed, with success
\* or failure, and every spinner timer has fired, no pin has a spinner
\* class and every pin shows the thumb-tack, whatever the order of the
\* timers and the responses.
C20_NoSpinnerOnceSettled ==
  Settled =>
    \A p \in Pins :
      /\ pins[p].classes \cap SpinnerClasses = {}
      /\ "fa-thumb-tack" \in pins[p].classes

C20_Witness ==
  /\ Len(clicks) = MaxClicks
  /\ Settled
  /\ clicks[1].pin = clicks[2].pin
  /\ clicks[1].request = "handled"
  /\ clicks[2].request = "failed"

PinNext == Click \/ TimerFires \/ ServerReceives \/ AjaxDone \/ AjaxFail

SpecPin == PinInit /\ [][PinNext]_vars

-----------------------------------------------------------------------------
(* routes/things.js with routes/helpers/render.js.  A handler runs in the   *)
(* steps its promises cut it into; requests interleave at those steps.      *)
(* Every request comes with a session of its own, so with its own flash     *)
(* store.                                                                   *)

Reqs == {"req1", "req2"}

NoUser == [t |-> "none"]
\* user.suppressedNotices is <<>> when the user has none, else <<the list>>
Users ==
  {[t |-> "user", displayName |-> "editor", mayEdit |-> TRUE, suppressedNotices |-> <<>>],
   [t |-> "user", displayName |-> "reader", mayEdit |-> FALSE, suppressedNotices |-> <<>>]}

\* Users who have suppressed notices before
NoticeUsers ==
  Users \cup
  {[t |-> "user", displayName |-> "editor", mayEdit |-> TRUE,
    suppressedNotices |-> <<notices>>] :
     notices \in {<<"language-notice-thing">>, <<"language-notice-review">>}}

\* req.locale: the display language of a request
Locales == {"en", "de"}

ThingIds == {"t1", "gone"}

\* A multilingual string: whether the property is set, and language -> text
NoLabel == [defined |-> FALSE, text |-> [k \in {} |-> <<>>]]
MlString(f) == [defined |-> TRUE, text |-> f]

LabelInputs ==
  {NoLabel,
   MlString([k \in {"en"} |-> <<"x">>]),
   MlString([k \in {"en", "fr"} |-> IF k = "en" THEN <<"x">> ELSE <<"y", "&">>])}

UrlInputs == {<<>>, <<"u1">>, <<"u1", "u2">>}

\* req.body of the label form: a field is there or not
BodyFields == {"thing-label-language", "thing-label"}
BodyInputs ==
  {[k \in {} |-> JSUndefined],
   [k \in BodyFields |->
      IF k = "thing-label" THEN JSStr(<<"<", "b", ">">>) ELSE JSStr(<<"f", "r">>)],
   [k \in BodyFields |->
      IF k = "thing-label" THEN JSStr(<<"a">>) ELSE JSStr(<<"e", "n">>)],
   [k \in {"thing-label"} |-> JSStr(<<"a">>)]}

\* req.body[field]
BodyGet(body, field) == IF field \in DOMAIN body THEN body[field] ELSE JSUndefined

\* The property key a value used as obj[value] stands for
PropertyKey(x) ==
  CASE x.t = "undefined" -> "undefined"
    [] x = JSStr(<<"e", "n">>) -> "en"
    [] x = JSStr(<<"f", "r">>) -> "fr"

\* Thing.getNotStaleOrDeleted(id) / thing.populateUserInfo(user) /
\* thing.newRevision(user) / newRev.save() / Thing.resolveError(error)
\* belong to models/thing: a fetch gives the stored revision or fails for a
\* thing that is not there; userCanEdit is set for a signed-in user who may
\* edit; a new revision starts as a copy of the fetched one; save stores it.
Fetched(stored) == [stored EXCEPT !.userCanEdit = FALSE]

populateUserInfo(thing, user) ==
  [thing EXCEPT !.userCanEdit = (user # NoUser /\ user.mayEdit)]

newRevision(thing) == thing

ValidationError == [t |-> "Error", name |-> "ValidationError"]
InvalidLabelMessage ==
  ErrorMessageConstructor(JSStr(<<"l", "o", "n", "g">>), JSArr(<<JSStr(<<"2", "5", "6">>)>>),
                          ValidationError).obj

resolveError(error) == IF error = ValidationError THEN InvalidLabelMessage ELSE error

NewRevisionErrors == {InvalidLabelMessage, JSError, JSUndefined}
SaveErrors == {ValidationError, JSError}

\* getResourceErrorHandler(req, res, next, 'thing', id): the resource-error
\* view with status 404
ResourceErrorStatus == 404

-----------------------------------------------------------------------------
(* render.js *)

\* res.render(view, vars) / res.redirect(url): one response sent
Rendered(res, view, viewVars) ==
  [res EXCEPT !.sent = Append(@, [kind |-> "render", view |-> view,
                                  status |-> res.status, vars |-> viewVars])]

\* res.redirect that sends nothing
RedirectNothing(res, url) == res

Redirected(res, url) ==
  [res EXCEPT !.status = 302,
              !.sent = Append(@, [kind |-> "redirect", url |-> url, status |-> 302])]

\* languages.getAll() belongs to locales/languages: the table of the display
\* languages, language -> entry. Every call hands out a table of its own,
\* with entries of its own, in which no language is marked.
getAll == [l \in Languages |-> [messageKey |-> l, isCurrentLanguage |-> FALSE]]

\* Lines 32-33 marking every entry
MarkEveryLanguage(all, locale) ==
  [l \in DOMAIN all |-> [all[l] EXCEPT !.isCurrentLanguage = TRUE]]

\* if (vars.languages[req.locale]) vars.languages[req.locale].isCurrentLanguage = true
MarkCurrentLanguage(all, locale) ==
  IF locale \in DOMAIN all
  THEN [all EXCEPT ![locale] = [@ EXCEPT !.isCurrentLanguage = TRUE]]
  ELSE all

\* vars.currentLanguage, for a locale that has an entry
currentLanguage(all, locale) ==
  [langKey |-> locale, messageKey |-> all[locale].messageKey,
   label |-> Translate(<<all[locale].messageKey>>)]

\* render.template(req, res, view, extraVars): the req and the res after.
\* Of the variables handed to the view, configScript and csrfToken are left
\* out.
template(req, res, user, view, extraVars) ==
  LET all == MarkCurrentLanguage(getAll, req.locale)
      viewVars == [extra |-> extraVars,
                   user |-> user,
                   scripts |-> <<"lib.min.js">>,
                   languages |-> all,
                   currentLanguage |-> currentLanguage(all, req.locale),
                   siteMessages |-> FlashRead(req, "siteMessages"),
                   siteErrors |-> FlashRead(req, "siteErrors")]
  IN [req |-> FlashTake(FlashTake(req, "siteMessages"), "siteErrors"),
      res |-> Rendered(res, view, viewVars)]

signinRequired(req, res, user, extraVars) ==
  template(req, res, user, "signin-required", extraVars)

permissionError(req, res, user, extraVars) ==
  template(req, [res EXCEPT !.status = 403], user, "permission-error", extraVars)

resourceError(req, res, user, extraVars) ==
  template(req, res, user, "resource-error", extraVars)

-----------------------------------------------------------------------------
(* things.js *)

\* The `edit` argument of sendThing: none, or what GET edit/label passes
EditLabel == [t |-> "edit", label |-> TRUE, titleKey |-> "edit label"]

\* Lines 88-92 leaving the first URL in the list
URLsNotShifted(thing) ==
  IF Len(thing.urls) > 0
  THEN [thing EXCEPT !.mainURL = <<Head(thing.urls)>>,
                     !.otherURLs = IF Len(thing.urls) > 1 THEN <<thing.urls>> ELSE <<>>]
  ELSE thing

\* Lines 88-92: mainURL and otherURLs are <<>> when unset, else <<the value>>;
\* otherURLs is thing.urls itself, after the shift
mainAndOtherURLs(thing) ==
  IF Len(thing.urls) > 0
  THEN [thing EXCEPT !.mainURL = <<Head(thing.urls)>>,
                     !.urls = Tail(thing.urls),
                     !.otherURLs = IF Len(thing.urls) > 1
                                   THEN <<Tail(thing.urls)>> ELSE <<>>]
  ELSE thing

\* Line 94: edit && req.method == 'GET' comes before user.suppressedNotices
ReadsUser(req, edit) == edit # NoObject /\ req.method = "GET"

\* The notice that is shown to everybody
NoticeAlways(user) == TRUE

\* !user.suppressedNotices || user.suppressedNotices.indexOf('language-notice-thing') == -1
NoticeNotSuppressed(user) ==
  \/ user.suppressedNotices = <<>>
  \/ \A i \in 1..Len(user.suppressedNotices[1]) :
       user.suppressedNotices[1][i] # "language-notice-thing"

\* sendThing(req, res, thing, edit): the req and the res after, or the
\* TypeError of reading a property of an undefined user
sendThing(req, res, user, thing, edit) ==
  LET pageErrors == FlashRead(req, "pageErrors")
      req1 == FlashTake(req, "pageErrors")
      shown == mainAndOtherURLs(thing)
  IN IF ReadsUser(req, edit) /\ user = NoUser
     THEN [req |-> req1, res |-> res, thrown |-> TRUE]
     ELSE LET showLanguageNotice == ReadsUser(req, edit) /\ NoticeNotSuppressed(user)
              out == template(req1, res, user, "thing",
                              [deferHeader |-> edit # NoObject,
                               titleKey |-> IF edit # NoObject THEN edit.titleKey
                                            ELSE "undefined",
                               thing |-> shown, edit |-> edit,
                               pageErrors |-> pageErrors,
                               showLanguageNotice |-> showLanguageNotice])
          IN [req |-> out.req, res |-> out.res, thrown |-> FALSE]

\* Lines 61-63 replacing the label instead of adding to it
LabelReplaced(label, key, value) == MlString([k \in {key} |-> value])

\* if (!newRev.label) newRev.label = {};  newRev.label[key] = value
LabelSet(label, key, value) ==
  LET old == IF label.defined THEN label.text ELSE [k \in {} |-> <<>>]
  IN MlString([k \in DOMAIN old \cup {key} |-> IF k = key THEN value ELSE old[k]])

\* The check that is left out
NeverDenied(thing) == FALSE

\* if (!thing.userCanEdit)
PermissionDenied(thing) == ~thing.userCanEdit

IdleRequest ==
  [pc |-> "idle", route |-> "none", user |-> NoUser, id |-> "t1",
   body |-> [k \in {} |-> JSUndefined],
   req |-> [flash |-> EmptyFlash, locale |-> "en", method |-> "none"],
   res |-> [status |-> 200, sent |-> <<>>],
   thing |-> NoObject, newRev |-> NoObject, newRevisionCalls |-> 0, saveCalls |-> 0,
   failure |-> "none", flashed |-> <<>>, thrown |-> FALSE]

RouteInit ==
  /\ EditorIdle
  /\ ErrIdle
  /\ FlashIdle
  /\ SearchIdle
  /\ IndexIdle
  /\ PinIdle
  /\ \E label \in LabelInputs, urls \in UrlInputs :
       dbThing = [id |-> "t1", label |-> label, urls |-> urls, mainURL |-> <<>>,
                  otherURLs |-> <<>>, userCanEdit |-> FALSE]
  /\ dbSaves = <<>>
  /\ reqs = [r \in Reqs |-> IdleRequest]

RouteUnchanged == UNCHANGED <<errVars, searchVars, indexVars, pinVars, editorVars, feErr, feCall, feReq>>

\* POST /thing/:id/edit/label arrives: Thing.getNotStaleOrDeleted(id) is called
PostEditLabel(r) ==
  /\ reqs[r].pc = "idle"
  /\ \E user \in Users \cup {NoUser}, id \in ThingIds, body \in BodyInputs :
       reqs' = [reqs EXCEPT ![r] = [@ EXCEPT !.pc = "fetching", !.user = user,
                                             !.route = "post edit/label",
                                             !.req.method = "POST",
                                             !.id = id, !.body = body]]
  /\ UNCHANGED <<dbThing, dbSaves, debugLog>>
  /\ RouteUnchanged

\* The fetch fails: the resource error handler answers
FetchRejects(r) ==
  /\ reqs[r].pc = "fetching"
  /\ reqs[r].id # dbThing.id
  /\ LET q == reqs[r]
         out == resourceError(q.req, [q.res EXCEPT !.status = ResourceErrorStatus],
                              q.user, [titleKey |-> "thing not found"])
     IN reqs' = [reqs EXCEPT ![r] = [q EXCEPT !.pc = "done", !.req = out.req,
                                              !.res = out.res]]
  /\ UNCHANGED <<dbThing, dbSaves, debugLog>>
  /\ RouteUnchanged

\* The fetch succeeds: lines 54-60
FetchResolves(r) ==
  /\ reqs[r].pc = "fetching"
  /\ reqs[r].route = "post edit/label"
  /\ reqs[r].id = dbThing.id
  /\ LET q == reqs[r]
         thing == populateUserInfo(Fetched(dbThing), q.user)
     IN IF PermissionDenied(thing)
        THEN LET out == permissionError(q.req, q.res, q.user, [titleKey |-> "edit label"])
             IN reqs' = [reqs EXCEPT ![r] = [q EXCEPT !.pc = "done", !.thing = thing,
                                                      !.req = out.req, !.res = out.res]]
        ELSE reqs' = [reqs EXCEPT ![r] = [q EXCEPT !.pc = "newRevision", !.thing = thing,
                                                   !.newRevisionCalls = @ + 1]]
  /\ UNCHANGED <<dbThing, dbSaves, debugLog>>
  /\ RouteUnchanged

\* thing.newRevision(req.user) is fulfilled: lines 61-64
NewRevisionResolves(r) ==
  /\ reqs[r].pc = "newRevision"
  /\ LET q == reqs[r]
         newRev == newRevision(q.thing)
         key == PropertyKey(BodyGet(q.body, "thing-label-language"))
         value == escapeHTML(BodyGet(q.body, "thing-label"))
     IN reqs' = [reqs EXCEPT ![r] =
                   [q EXCEPT !.pc = "saving",
                             !.newRev = [newRev EXCEPT !.label = LabelSet(@, key, value)],
                             !.saveCalls = @ + 1]]
  /\ UNCHANGED <<dbThing, dbSaves, debugLog>>
  /\ RouteUnchanged

\* thing.newRevision(req.user) is rejected: lines 73-76
NewRevisionRejects(r) ==
  /\ reqs[r].pc = "newRevision"
  /\ \E error \in NewRevisionErrors :
       LET q == reqs[r]
           fl == flashErrorMessage(q.req, debugLog, error,
                                   "editing label - creating new revision")
           out == sendThing(fl.req, q.res, q.user, q.thing, NoObject)
       IN /\ reqs' = [reqs EXCEPT ![r] =
                        [q EXCEPT !.pc = "done", !.failure = "newRevision",
                                  !.flashed = <<Last(fl.req.flash["errors"])>>,
                                  !.thrown = out.thrown,
                                  !.req = out.req, !.res = out.res]]
          /\ debugLog' = fl.log
  /\ UNCHANGED <<dbThing, dbSaves>>
  /\ RouteUnchanged

\* newRev.save() is fulfilled: line 65
SaveResolves(r) ==
  /\ reqs[r].pc = "saving"
  /\ LET q == reqs[r]
     IN /\ dbThing' = [q.newRev EXCEPT !.userCanEdit = FALSE]
        /\ dbSaves' = Append(dbSaves, [by |-> r, label |-> q.newRev.label])
        /\ reqs' = [reqs EXCEPT ![r] = [q EXCEPT !.pc = "done",
                                                 !.res = Redirected(q.res, <<"/thing/", q.id>>)]]
  /\ UNCHANGED debugLog
  /\ RouteUnchanged

\* newRev.save() is rejected: lines 67-71
SaveRejects(r) ==
  /\ reqs[r].pc = "saving"
  /\ \E error \in SaveErrors :
       LET q == reqs[r]
           errorMessage == resolveError(error)
           fl == flashErrorMessage(q.req, debugLog, errorMessage, "editing label - saving")
           out == sendThing(fl.req, q.res, q.user, q.thing, NoObject)
       IN /\ reqs' = [reqs EXCEPT ![r] =
                        [q EXCEPT !.pc = "done", !.failure = "save",
                                  !.flashed = <<Last(fl.req.flash["errors"])>>,
                                  !.thrown = out.thrown,
                                  !.req = out.req, !.res = out.res]]
          /\ debugLog' = fl.log
  /\ UNCHANGED <<dbThing, dbSaves>>
  /\ RouteUnchanged

Range(q) == {q[i] : i \in 1..Len(q)}

\* The revision a request saved
SavedBy(r) == {dbSaves[i].label : i \in {j \in 1..Len(dbSaves) : dbSaves[j].by = r}}

\* C1: whatever the body, also an empty one, the label of the saved revision
\* holds every language key the fetched thing's label had, other than the
\* submitted language, with the value it had.
C1_OtherLanguagesKept ==
  \A r \in Reqs :
    \A saved \in SavedBy(r) :
      LET before == reqs[r].thing.label.text
          submitted == BodyGet(reqs[r].body, "thing-label-language")
      IN \A k \in DOMAIN before \cap Languages :
           \/ (submitted # JSUndefined /\ PropertyKey(submitted) = k)
           \/ (k \in DOMAIN saved.text /\ saved.text[k] = before[k])

C1_Witness ==
  \E r \in Reqs :
    /\ SavedBy(r) # {}
    /\ DOMAIN reqs[r].body = {}
    /\ DOMAIN reqs[r].thing.label.text = {"en", "fr"}

\* C2: when the fetched thing has userCanEdit false (also with nobody signed
\* in), the one response is the 'permission-error' view with status 403,
\* newRevision and save are never called, and the request saves nothing.
C2_DeniedRequestChangesNothing ==
  \A r \in Reqs :
    (reqs[r].thing # NoObject /\ ~reqs[r].thing.userCanEdit) =>
      /\ reqs[r].pc = "done"
      /\ Len(reqs[r].res.sent) = 1
      /\ reqs[r].res.sent[1].kind = "render"
      /\ reqs[r].res.sent[1].view = "permission-error"
      /\ reqs[r].res.sent[1].status = 403
      /\ reqs[r].newRevisionCalls = 0
      /\ reqs[r].saveCalls = 0
      /\ SavedBy(r) = {}

C2_Witness ==
  \E r1, r2 \in Reqs :
    /\ reqs[r1].thing # NoObject
    /\ reqs[r1].user = NoUser
    /\ reqs[r1].pc = "done"
    /\ reqs[r2].thing # NoObject
    /\ reqs[r2].user # NoUser
    /\ ~reqs[r2].thing.userCanEdit
    /\ reqs[r2].pc = "done"

\* C10: when creating or saving the revision fails, the message flashError
\* flashed is among the messages handed to the 'thing' view rendered for
\* that request.
C10_FlashedErrorShown ==
  \A r \in Reqs :
    reqs[r].failure # "none" =>
      LET response == Last(reqs[r].res.sent)
      IN /\ response.kind = "render"
         /\ response.view = "thing"
         /\ reqs[r].flashed[1] \in Range(response.vars.extra.pageErrors)
                                     \cup Range(response.vars.siteErrors)
                                     \cup Range(response.vars.siteMessages)

RouteNext ==
  \E r \in Reqs :
    \/ PostEditLabel(r)
    \/ FetchRejects(r)
    \/ FetchResolves(r)
    \/ NewRevisionResolves(r)
    \/ NewRevisionRejects(r)
    \/ SaveResolves(r)
    \/ SaveRejects(r)

SpecRoute == RouteInit /\ [][RouteNext]_vars

\* What is left of a handler once the request has arrived: the callbacks of
\* the promises of Thing.getNotStaleOrDeleted, thing.newRevision and
\* newRev.save.
Settle(r) ==
  \/ FetchRejects(r)
  \/ FetchResolves(r)
  \/ NewRevisionResolves(r)
  \/ NewRevisionRejects(r)
  \/ SaveResolves(r)
  \/ SaveRejects(r)

\* Every promise of the thing model is settled in the end, and the event
\* loop runs the callback of a settled promise.
SpecRouteLive == SpecRoute /\ \A r \in Reqs : WF_vars(Settle(r))

OneResponse(r) ==
  LET q == reqs[r]
      response == q.res.sent[1]
  IN /\ q.pc # "done" => q.res.sent = <<>>
     /\ q.pc = "done" => Len(q.res.sent) = 1
     /\ (q.pc = "done" /\ q.id = "t1") =>
          \/ /\ response.kind = "redirect"
             /\ response.url = <<"/thing/", q.id>>
             /\ q.failure = "none"
             /\ \E i \in 1..Len(dbSaves) : dbSaves[i].by = r
          \/ /\ response.kind = "render"
             /\ response.view = "thing"
             /\ q.failure \in {"newRevision", "save"}
             /\ \A i \in 1..Len(dbSaves) : dbSaves[i].by # r
          \/ /\ response.kind = "render"
             /\ response.view = "permission-error"
             /\ response.status = 403
             /\ q.newRevisionCalls = 0
             /\ q.failure = "none"

\* C17: a POST /thing/:id/edit/label for an existing thing is answered
\* exactly once on every path: with a redirect to /thing/:id when the
\* revision was saved, with the thing page when creating or saving the
\* revision failed, or with the 403 permission-error view; no request has
\* two responses, and every request that arrived is answered in the end.
C17_ExactlyOneResponse ==
  /\ [](\A r \in Reqs : OneResponse(r))
  /\ \A r \in Reqs : (reqs[r].pc = "fetching") ~> (reqs[r].pc = "done")

C17_Witness ==
  /\ \A r \in Reqs : reqs[r].pc = "done" /\ reqs[r].id = "t1"
  /\ reqs["req1"].res.sent[1].kind = "redirect"
  /\ reqs["req2"].res.sent[1].kind = "render"
  /\ reqs["req2"].failure = "save"

-----------------------------------------------------------------------------
(* things.js: the GET routes *)

\* GET /thing/:id arrives (lines 15-17): Thing.getNotStaleOrDeleted(id) is
\* called
GetThing(r) ==
  /\ reqs[r].pc = "idle"
  /\ \E user \in NoticeUsers \cup {NoUser}, id \in ThingIds, locale \in Locales :
       reqs' = [reqs EXCEPT ![r] = [@ EXCEPT !.pc = "fetching", !.user = user,
                                             !.route = "get thing",
                                             !.req.method = "GET",
                                             !.req.locale = locale,
                                             !.id = id]]
  /\ UNCHANGED <<dbThing, dbSaves, debugLog>>
  /\ RouteUnchanged

\* Its fetch succeeds: lines 18-21
GetThingResolves(r) ==
  /\ reqs[r].pc = "fetching"
  /\ reqs[r].route = "get thing"
  /\ reqs[r].id = dbThing.id
  /\ LET q == reqs[r]
         thing == populateUserInfo(Fetched(dbThing), q.user)
         out == sendThing(q.req, q.res, q.user, thing, NoObject)
     IN reqs' = [reqs EXCEPT ![r] = [q EXCEPT !.pc = "done", !.thing = thing,
                                              !.thrown = out.thrown,
                                              !.req = out.req, !.res = out.res]]
  /\ UNCHANGED <<dbThing, dbSaves, debugLog>>
  /\ RouteUnchanged

\* GET /thing/:id/edit/label arrives (lines 25-32): without a user the
\* handler returns with the 'signin-required' view, else
\* Thing.getNotStaleOrDeleted(id) is called
GetEditLabel(r) ==
  /\ reqs[r].pc = "idle"
  /\ \E user \in NoticeUsers \cup {NoUser}, id \in ThingIds, locale \in Locales :
       LET q == [reqs[r] EXCEPT !.user = user, !.route = "get edit/label",
                                !.req.method = "GET", !.req.locale = locale,
                                !.id = id]
       IN IF user = NoUser
          THEN LET out == signinRequired(q.req, q.res, q.user,
                                         [titleKey |-> "edit label"])
               IN reqs' = [reqs EXCEPT ![r] = [q EXCEPT !.pc = "done", !.req = out.req,
                                                        !.res = out.res]]
          ELSE reqs' = [reqs EXCEPT ![r] = [q EXCEPT !.pc = "fetching"]]
  /\ UNCHANGED <<dbThing, dbSaves, debugLog>>
  /\ RouteUnchanged

\* Its fetch succeeds: lines 33-45
GetEditLabelResolves(r) ==
  /\ reqs[r].pc = "fetching"
  /\ reqs[r].route = "get edit/label"
  /\ reqs[r].id = dbThing.id
  /\ LET q == reqs[r]
         thing == populateUserInfo(Fetched(dbThing), q.user)
     IN IF PermissionDenied(thing)
        THEN LET out == permissionError(q.req, q.res, q.user, [titleKey |-> "edit label"])
             IN reqs' = [reqs EXCEPT ![r] = [q EXCEPT !.pc = "done", !.thing = thing,
                                                      !.req = out.req, !.res = out.res]]
        ELSE LET out == sendThing(q.req, q.res, q.user, thing, EditLabel)
             IN reqs' = [reqs EXCEPT ![r] = [q EXCEPT !.pc = "done", !.thing = thing,
                                                      !.thrown = out.thrown,
                                                      !.req = out.req, !.res = out.res]]
  /\ UNCHANGED <<dbThing, dbSaves, debugLog>>
  /\ RouteUnchanged

\* The three routes of things.js, served by one process
ViewNext ==
  \E r \in Reqs :
    \/ GetThing(r)
    \/ GetThingResolves(r)
    \/ GetEditLabel(r)
    \/ GetEditLabelResolves(r)
    \/ PostEditLabel(r)
    \/ FetchRejects(r)
    \/ FetchResolves(r)
    \/ NewRevisionResolves(r)
    \/ NewRevisionRejects(r)
    \/ SaveResolves(r)
    \/ SaveRejects(r)

SpecView == RouteInit /\ [][ViewNext]_vars

\* The views a request was answered with
Renders(r) ==
  {reqs[r].res.sent[i] :
     i \in {j \in 1..Len(reqs[r].res.sent) : reqs[r].res.sent[j].kind = "render"}}

\* The languages marked as the current one in the variables of a view
MarkedLanguages(response) ==
  {l \in DOMAIN response.vars.languages :
     response.vars.languages[l].isCurrentLanguage}

AnsweredWith(r, view, status) ==
  /\ Len(reqs[r].res.sent) = 1
  /\ reqs[r].res.sent[1].kind = "render"
  /\ reqs[r].res.sent[1].view = view
  /\ reqs[r].res.sent[1].status = status

\* C23: GET /thing/:id/edit/label without a signed-in user is answered with
\* the 'signin-required' view and the thing is never fetched; with a
\* signed-in user who may not edit the thing it is answered with the
\* 'permission-error' view and status 403; the 'thing' view is rendered only
\* for a signed-in user with userCanEdit, and then showLanguageNotice is true
\* exactly when the user's suppressedNotices is absent or does not hold
\* 'language-notice-thing'. On no route does sendThing read a property of an
\* undefined user.
C23_EditFormOnlyForEditors ==
  \A r \in Reqs :
    LET q == reqs[r]
    IN /\ ~q.thrown
       /\ q.route = "get edit/label" =>
            /\ q.user = NoUser =>
                 /\ q.pc = "done"
                 /\ q.thing = NoObject
                 /\ AnsweredWith(r, "signin-required", 200)
            /\ (q.user # NoUser /\ q.thing # NoObject /\ ~q.thing.userCanEdit) =>
                 AnsweredWith(r, "permission-error", 403)
            /\ \A response \in Renders(r) :
                 response.view = "thing" =>
                   /\ q.user # NoUser
                   /\ q.thing.userCanEdit
                   /\ response.vars.extra.edit = EditLabel
                   /\ response.vars.extra.showLanguageNotice <=>
                        \/ q.user.suppressedNotices = <<>>
                        \/ "language-notice-thing"
                             \notin Range(q.user.suppressedNotices[1])

C23_Witness ==
  /\ reqs["req1"].route = "get edit/label"
  /\ reqs["req1"].user # NoUser
  /\ reqs["req1"].user.suppressedNotices = <<(<<"language-notice-thing">>)>>
  /\ AnsweredWith("req1", "thing", 200)
  /\ reqs["req2"].route = "get edit/label"
  /\ reqs["req2"].user = NoUser
  /\ reqs["req2"].pc = "done"

-----------------------------------------------------------------------------
(* The rich-text editor and its mode switcher (src/unnamed/part_000)       *)
(*                                                                         *)
(* page is the state of one page: the counter, the rtes object, every      *)
(* editor instance renderRTE has created (with what its closures hold,     *)
(* also after it was removed), the markdown textareas, their switchers,    *)
(* the event handlers registered on the editors and on the window, and     *)
(* which element has the focus.  An editor's selection is a collapsed      *)
(* caret, and the editor scrolls with it.                                  *)

MaxInstances == 2

Textareas == {"ta1"}
SwitcherAttrs == {"data-rte-enabled", "data-markdown-enabled"}
Markdowns == {"*x*", "_x_", "*y*"}
Docs == {"em(x)", "em(y)"}
Positions == {0, 1}
Absent == "undefined"

\* The markdown parser and serializer: both spellings of emphasis give the
\* same document, which is written back with asterisks.
Parse(markdown) == IF markdown = "*y*" THEN "em(y)" ELSE "em(x)"
Serialize(doc) == IF doc = "em(x)" THEN "*x*" ELSE "*y*"

\* attr(name, number) stores the number as a string; restoreSelection and
\* scrollTop read the number back from it.
AttrString(n) == ToString(n)
AttrNumber(s) == CHOOSE n \in Positions : ToString(n) = s

NoFocus == [on |-> "none", inst |-> 0, ta |-> ""]
OnEditor(i) == [on |-> "rte", inst |-> i, ta |-> ""]
OnTextarea(ta) == [on |-> "textarea", inst |-> 0, ta |-> ta]

NoSwitch == [made |-> FALSE]
NoAssign == [made |-> FALSE]

\* A handler starts: nothing has been triggered or run yet in this event.
Begin(p) == [p EXCEPT !.fired = {}, !.ran = {}]

\* Code of the instance i runs (a handler or a method of its closure).
Runs(p, i) == [p EXCEPT !.ran = @ \cup {[inst |-> i, removed |-> ~p.created[i].mounted]}]

\* increase() that leaves _counter as it is
CounterStuck(p) == p

rteCounterIncrease(p) == [p EXCEPT !.rteCounter = @ + 1]
rteCounterCurrent(p) == p.rteCounter

\* $('textarea[data-markdown]').change(...)
ChangeHandler(p, ta) ==
  [p EXCEPT !.tas[ta].selStart = Absent,
            !.tas[ta].selEnd = Absent,
            !.tas[ta].scrollY = Absent]

\* $textarea.trigger(event)
Trigger(p, ta, event) ==
  LET p1 == [p EXCEPT !.fired = @ \cup {<<ta, event>>}]
  IN IF event = "change" THEN ChangeHandler(p1, ta) ELSE p1

updateTextarea(p, ta, i) ==
  LET markdown == Serialize(p.created[i].doc)
  IN IF markdown # p.tas[ta].value
       THEN LET p1 == [p EXCEPT !.tas[ta].value = markdown]
                p2 == Trigger(Trigger(p1, ta, "keyup"), ta, "change")
            IN [p2 EXCEPT !.tas[ta].reset = TRUE]
       ELSE p

updateRTESelectionData(p, ta, i) ==
  LET sel == [start |-> p.created[i].sel, end |-> p.created[i].sel]
      scrollY == p.created[i].scroll
  IN [p EXCEPT !.tas[ta].selStart = AttrString(sel.start),
               !.tas[ta].selEnd = AttrString(sel.end),
               !.tas[ta].scrollY = AttrString(scrollY),
               !.tas[ta].storedFor = p.tas[ta].value]

CeHandlers(i) == {[event |-> e, inst |-> i] : e \in {"blur", "focus", "focusout"}}
ResizeHandler(i) == [event |-> "resize", inst |-> i]
BeforeUnloadHandler(i) == [event |-> "beforeunload", inst |-> i]

\* Everything nuke takes off the window.
NukeWindowOff(p, myID) == {ResizeHandler(p.rtes[myID])}

renderRTE(p, ta) ==
  LET myID == rteCounterCurrent(p)
      i == Len(p.created) + 1
      view == [id |-> myID, ta |-> ta, doc |-> Parse(p.tas[ta].value),
               sel |-> 0, scroll |-> 0, mounted |-> TRUE,
               given |-> [sel |-> Absent, scroll |-> Absent]]
      p1 == [p EXCEPT
               !.created = Append(@, view),
               !.rtes = [k \in DOMAIN @ \cup {myID} |-> IF k = myID THEN i ELSE @[k]],
               !.winHandlers = @ \cup {ResizeHandler(i), BeforeUnloadHandler(i)},
               !.ceHandlers = @ \cup CeHandlers(i)]
  IN rteCounterIncrease(Runs(p1, i))

\* rtes[myID].nuke of the instance i
nuke(p, i) ==
  LET myID == p.created[i].id
      j == p.rtes[myID]
      p1 == Runs(p, i)
  IN [p1 EXCEPT
        !.ceHandlers = @ \ CeHandlers(i),
        !.winHandlers = @ \ NukeWindowOff(p, myID),
        !.rtes = [k \in DOMAIN @ \ {myID} |-> @[k]],
        !.created[j].sel = 0,
        !.created[j].scroll = 0,
        !.created[i].mounted = FALSE,
        !.focus = IF @ = OnEditor(i) THEN NoFocus ELSE @]

\* rtes[myID].reRender of the instance i
reRender(p, i) == renderRTE(nuke(p, i), p.created[i].ta)

\* toggleSwitcher without removeAttr(deactivateState)
ToggleKeepsBoth(p, ta) ==
  [p EXCEPT !.switchers[ta] = @ \cup SwitcherAttrs]

toggleSwitcher(p, ta) ==
  LET states == IF "data-rte-enabled" \in p.switchers[ta]
                  THEN [deactivateState |-> "data-rte-enabled",
                        activateState |-> "data-markdown-enabled"]
                  ELSE [deactivateState |-> "data-markdown-enabled",
                        activateState |-> "data-rte-enabled"]
  IN [p EXCEPT !.switchers[ta] = (@ \ {states.deactivateState}) \cup {states.activateState}]

isSelectable(p, ta, activeOptionAttr) ==
  IF activeOptionAttr \in p.switchers[ta]
    THEN [selectable |-> FALSE, page |-> p]
    ELSE [selectable |-> TRUE, page |-> toggleSwitcher(p, ta)]

\* The element that loses the focus gets its blur (and focusout) event; a
\* textarea edited since its last change event gets its change event.
BlurEffects(p) ==
  LET i == p.focus.inst
      ta == p.focus.ta
      p1 == CASE p.focus.on = "rte" /\ [event |-> "blur", inst |-> i] \in p.ceHandlers ->
                   updateTextarea(updateRTESelectionData(Runs(p, i), p.created[i].ta, i),
                                  p.created[i].ta, i)
              [] p.focus.on = "textarea" /\ p.tas[ta].dirty ->
                   ChangeHandler([p EXCEPT !.tas[ta].dirty = FALSE,
                                           !.fired = @ \cup {<<ta, "change">>}], ta)
              [] OTHER -> p
  IN [p1 EXCEPT !.focus = NoFocus]

MoveFocus(p, target) == [BlurEffects(p) EXCEPT !.focus = target]

\* The rte-container of a textarea, the element between it and its
\* switcher: the instance whose container it is, 0 when there is none.
Container(p, ta) ==
  LET mounted == {i \in 1..Len(p.created) : p.created[i].ta = ta /\ p.created[i].mounted}
  IN IF mounted = {} THEN 0 ELSE CHOOSE i \in mounted : \A j \in mounted : i <= j

enableRTE(p, ta) ==
  LET checked == isSelectable(p, ta, "data-rte-enabled")
      p1 == checked.page
      selStart == p1.tas[ta].selStart
      selEnd == p1.tas[ta].selEnd
      scrollY == p1.tas[ta].scrollY
      p2 == renderRTE([p1 EXCEPT !.tas[ta].hidden = TRUE], ta)
      i == Len(p2.created)
      editorID == p2.created[i].id
      p3 == IF selStart # Absent /\ selEnd # Absent
              THEN [p2 EXCEPT !.created[i].sel = AttrNumber(selStart),
                              !.created[i].given.sel = selStart]
              ELSE p2
      p4 == IF scrollY # Absent
              THEN [p3 EXCEPT !.created[i].scroll = AttrNumber(scrollY),
                              !.created[i].given.scroll = scrollY]
              ELSE p3
  IN IF ~checked.selectable THEN p ELSE MoveFocus(p4, OnEditor(p4.rtes[editorID]))

enableMarkdown(p, ta, detail) ==
  LET checked == isSelectable(p, ta, "data-markdown-enabled")
      p1 == checked.page
      i == Container(p1, ta)
      editorID == p1.created[i].id
      p2 == IF detail = 0
              THEN updateTextarea(updateRTESelectionData(p1, ta, i), ta, p1.rtes[editorID])
              ELSE p1
      p3 == nuke(p2, p2.rtes[editorID])
      p4 == [p3 EXCEPT !.tas[ta].hidden = FALSE]
      p5 == IF p4.tas[ta].reset THEN [p4 EXCEPT !.tas[ta].reset = FALSE] ELSE p4
  IN IF ~checked.selectable THEN p
     ELSE IF i = 0 THEN [p1 EXCEPT !.thrown = "TypeError"]
     ELSE MoveFocus(p5, OnTextarea(ta))

RECURSIVE RunHandlers(_, _, _)
\* The window dispatches an event: its handlers run in the order in which
\* they were registered.
RunHandlers(p, event, i) ==
  IF i > Len(p.created) THEN p
  ELSE LET p1 == IF [event |-> event, inst |-> i] \in p.winHandlers
                   THEN IF event = "beforeunload"
                          THEN updateTextarea(Runs(p, i), p.created[i].ta, i)
                          ELSE Runs(p, i)
                   ELSE p
       IN RunHandlers(p1, event, i + 1)

CounterError == "Counter should only be increase()d or accessed."

\* set current(c)
rteCounterAssign(p, c) == [p EXCEPT !.thrown = CounterError]

\* The page as the server sent it, before the script has run.
ServedPage(userPrefersRichTextEditor, values) ==
  [rteCounter |-> 0,
   created |-> <<>>,
   rtes |-> <<>>,
   tas |-> [ta \in Textareas |->
              [value |-> values[ta], selStart |-> Absent, selEnd |-> Absent,
               scrollY |-> Absent, reset |-> FALSE, hidden |-> FALSE,
               dirty |-> FALSE, storedFor |-> values[ta]]],
   switchers |-> [ta \in Textareas |->
                    IF userPrefersRichTextEditor THEN {"data-rte-enabled"}
                                                 ELSE {"data-markdown-enabled"}],
   ceHandlers |-> {},
   winHandlers |-> {},
   focus |-> NoFocus,
   fired |-> {},
   ran |-> {},
   thrown |-> "none"]

\* if (window.config.userPrefersRichTextEditor) $('textarea[data-markdown]').each(...)
SwitchAllOn(p, userPrefersRichTextEditor) ==
  LET each(q, ta) == renderRTE([q EXCEPT !.tas[ta].hidden = TRUE], ta)
  IN IF userPrefersRichTextEditor THEN each(p, "ta1") ELSE p

ServedValues == {[ta \in Textareas |-> IF ta = "ta1" THEN v ELSE "*y*"] : v \in {"*x*", "_x_"}}

EditorInit ==
  /\ ErrIdle
  /\ FlashIdle
  /\ SearchIdle
  /\ IndexIdle
  /\ PinIdle
  /\ RouteIdle
  /\ \E userPrefersRichTextEditor \in BOOLEAN, values \in ServedValues :
       page = SwitchAllOn(ServedPage(userPrefersRichTextEditor, values),
                          userPrefersRichTextEditor)

EditorUnchanged == UNCHANGED <<errVars, flashVars, searchVars, indexVars, pinVars, routeVars>>

Vias == {"mouse", "accesskey"}

\* How the click event arrives at the option: a mouse click first takes the
\* focus away from the element that has it, an access key does not.
Arrive(p, via) == IF via = "mouse" THEN BlurEffects(Begin(p)) ELSE Begin(p)
\* A click event whose detail is never 0
DetailNeverZero(via) == 1

Detail(via) == IF via = "mouse" THEN 1 ELSE 0

MayRender == Len(page.created) < MaxInstances

\* A click on the 'enable RTE' option of the switcher of ta
ClickEnableRTE(ta, via) ==
  /\ "data-rte-enabled" \in page.switchers[ta] \/ MayRender
  /\ page' = enableRTE(Arrive(page, via), ta)
  /\ EditorUnchanged

\* A click on the 'enable markdown' option of the switcher of ta
ClickEnableMarkdown(ta, via) ==
  /\ page' = enableMarkdown(Arrive(page, via), ta, Detail(via))
  /\ EditorUnchanged

\* Another part of the application calls rtes[id].reRender()
CallReRender(id) ==
  /\ MayRender
  /\ id \in DOMAIN page.rtes
  /\ page' = reRender(Begin(page), page.rtes[id])
  /\ EditorUnchanged

\* rteCounter.current = c
AssignCurrent(c) ==
  /\ page' = rteCounterAssign(Begin(page), c)
  /\ EditorUnchanged

\* The user clicks into an editor.
FocusEditor(i) ==
  /\ i \in 1..Len(page.created)
  /\ page.created[i].mounted
  /\ page.focus # OnEditor(i)
  /\ page' = MoveFocus(Runs(Begin(page), i), OnEditor(i))
  /\ EditorUnchanged

\* The user edits the document in the editor that has the focus.
EditDocument(doc) ==
  /\ page.focus.on = "rte"
  /\ page.created[page.focus.inst].doc # doc
  /\ page' = [Begin(page) EXCEPT !.created[page.focus.inst].doc = doc]
  /\ EditorUnchanged

\* The user moves the caret in the editor that has the focus.
MoveCaret(pos) ==
  /\ page.focus.on = "rte"
  /\ page.created[page.focus.inst].sel # pos
  /\ page' = [Begin(page) EXCEPT !.created[page.focus.inst].sel = pos,
                                 !.created[page.focus.inst].scroll = pos]
  /\ EditorUnchanged

\* The user clicks into a textarea that is shown.
FocusTextarea(ta) ==
  /\ ~page.tas[ta].hidden
  /\ page.focus # OnTextarea(ta)
  /\ page' = MoveFocus(Begin(page), OnTextarea(ta))
  /\ EditorUnchanged

\* The user types in the textarea that has the focus: its change event
\* comes only when it loses the focus.
TypeInTextarea(markdown) ==
  /\ page.focus.on = "textarea"
  /\ page.tas[page.focus.ta].value # markdown
  /\ page' = [Begin(page) EXCEPT !.tas[page.focus.ta].value = markdown,
                                 !.tas[page.focus.ta].dirty = TRUE]
  /\ EditorUnchanged

\* The user clicks somewhere else on the page.
ClickElsewhere ==
  /\ page.focus # NoFocus
  /\ page' = BlurEffects(Begin(page))
  /\ EditorUnchanged

WindowResize ==
  /\ page' = RunHandlers(Begin(page), "resize", 1)
  /\ EditorUnchanged

WindowBeforeUnload ==
  /\ page' = RunHandlers(Begin(page), "beforeunload", 1)
  /\ EditorUnchanged

EditorNext ==
  \/ \E ta \in Textareas, via \in Vias : ClickEnableRTE(ta, via)
  \/ \E ta \in Textareas, via \in Vias : ClickEnableMarkdown(ta, via)
  \/ \E id \in 0..MaxInstances : CallReRender(id)
  \/ \E c \in 0..MaxInstances : AssignCurrent(c)
  \/ \E i \in 1..MaxInstances : FocusEditor(i)
  \/ \E doc \in Docs : EditDocument(doc)
  \/ \E pos \in Positions : MoveCaret(pos)
  \/ \E ta \in Textareas : FocusTextarea(ta)
  \/ \E markdown \in Markdowns : TypeInTextarea(markdown)
  \/ ClickElsewhere
  \/ WindowResize
  \/ WindowBeforeUnload

SpecEditor == EditorInit /\ [][EditorNext]_vars

\* ---- Properties of the editor

Created == 1..Len(page.created)
Removed == {i \in Created : ~page.created[i].mounted}

IdsIncreasing ==
  /\ \A i, j \in Created : i < j => page.created[i].id < page.created[j].id
  /\ \A i \in Created : page.created[i].id < page.rteCounter

\* C11: the ids of the editor instances are pairwise distinct and strictly
\* increasing in the order of creation, also after instances were removed,
\* and stay below the counter; no step decreases the counter; an
\* assignment to rteCounter.current throws and leaves the counter as it
\* was.
C11_IdsIncreaseCounterKept ==
  /\ []IdsIncreasing
  /\ [][/\ page'.rteCounter >= page.rteCounter
        /\ (\E c \in 0..MaxInstances : AssignCurrent(c)) =>
              /\ page'.thrown = CounterError
              /\ page'.rteCounter = page.rteCounter]_vars

C11_Witness ==
  /\ Len(page.created) >= 2
  /\ Removed # {}
  /\ page.thrown = CounterError

\* C12: no event handler that renderRTE registered for an instance is
\* still registered once the instance has been removed, and no event runs
\* code of a removed instance.
C12_NukeRemovesAllHandlers ==
  /\ \A h \in page.ceHandlers \cup page.winHandlers : page.created[h.inst].mounted
  /\ \A r \in page.ran : ~r.removed

HasSelectionData(t) == t.selStart # Absent \/ t.selEnd # Absent \/ t.scrollY # Absent

SwitchesToRTE(ta, via) ==
  "data-markdown-enabled" \in page.switchers[ta] /\ ClickEnableRTE(ta, via)

SwitchesToMarkdown(ta, via) ==
  "data-rte-enabled" \in page.switchers[ta] /\ ClickEnableMarkdown(ta, via)

\* C13: whenever a textarea carries data-rte-sel-start, data-rte-sel-end or
\* data-rte-scroll-y, its value is the one it had when they were stored;
\* and a switch to the RTE made while the markdown is as it was when they
\* were stored gives the new instance the stored selection and scroll
\* position.
C13_SelectionDataOnlyWhileUnchanged ==
  /\ [](\A ta \in Textareas :
          HasSelectionData(page.tas[ta]) => page.tas[ta].value = page.tas[ta].storedFor)
  /\ [][\A ta \in Textareas, via \in Vias :
          LET t == Arrive(page, via).tas[ta]
              new == page'.created[Len(page'.created)]
          IN (/\ "data-markdown-enabled" \in page.switchers[ta]
              /\ t.selStart # Absent /\ t.selEnd # Absent /\ t.scrollY # Absent
              /\ t.value = t.storedFor
              /\ SwitchesToRTE(ta, via))
             => /\ new.sel = AttrNumber(t.selStart)
                /\ new.scroll = AttrNumber(t.scrollY)]_vars

LiveFor(ta) == {id \in DOMAIN page.rtes : page.created[page.rtes[id]].ta = ta}
MountedFor(ta) == {i \in Created : page.created[i].ta = ta /\ page.created[i].mounted}

\* C18: every switcher carries exactly one of data-rte-enabled and
\* data-markdown-enabled; its textarea has exactly one live instance in
\* rtes (and one rte-container) when it carries data-rte-enabled and none
\* when it carries data-markdown-enabled; and the handler of a click on the
\* option that is already active changes nothing.
C18_SwitcherMatchesInstances ==
  /\ [](\A ta \in Textareas :
          /\ Cardinality(page.switchers[ta]) = 1
          /\ page.switchers[ta] \subseteq SwitcherAttrs
          /\ LET n == IF "data-rte-enabled" \in page.switchers[ta] THEN 1 ELSE 0
             IN /\ Cardinality(LiveFor(ta)) = n
                /\ Cardinality(MountedFor(ta)) = n
                /\ page.tas[ta].hidden = (n = 1))
  /\ [][\A ta \in Textareas, via \in Vias :
          /\ ("data-rte-enabled" \in page.switchers[ta] /\ ClickEnableRTE(ta, via))
               => page' = Arrive(page, via)
          /\ ("data-markdown-enabled" \in page.switchers[ta] /\ ClickEnableMarkdown(ta, via))
               => page' = Arrive(page, via)]_vars

C18_Witness ==
  \E ta \in Textareas :
    /\ page.switchers[ta] = {"data-markdown-enabled"}
    /\ Cardinality({i \in Removed : page.created[i].ta = ta}) >= 2

\* Whether the handlers of a switch to markdown bring the textarea up to
\* date: the blur handler when the editor had the focus and the option was
\* clicked with the mouse, enableMarkdown itself when the detail is 0.
Synchronises(ta, via) == via = "accesskey" \/ page.focus = OnEditor(Container(page, ta))

\* C19 (as stated): when a switch from the RTE to markdown completes, the
\* textarea's value is the serialization of the removed instance's
\* document; if that serialization was the textarea's value already, the
\* value, the data-rte-* attributes and data-reset-textarea are as before
\* and no change event was triggered.
C19_TextareaHoldsSerialization ==
  [][\A ta \in Textareas, via \in Vias :
       SwitchesToMarkdown(ta, via) =>
         LET markdown == Serialize(page.created[Container(page, ta)].doc)
             before == page.tas[ta]
             after == page'.tas[ta]
         IN /\ after.value = markdown
            /\ markdown = before.value =>
                 /\ after.value = before.value
                 /\ after.selStart = before.selStart
                 /\ after.selEnd = before.selEnd
                 /\ after.scrollY = before.scrollY
                 /\ after.reset = before.reset
                 /\ <<ta, "change">> \notin page'.fired]_vars

\* C19 (amended): when a switch from the RTE to markdown completes after
\* the blur handler ran (mouse click while the editor had the focus) or
\* with the detail 0 (access key), the textarea's value is the
\* serialization of the removed instance's document and the data-rte-*
\* attributes hold that instance's selection and scroll position, unless
\* the change event of a changed value removed them; otherwise the value
\* and the attributes stay and the value still parses to that document.
\* If the serialization was the textarea's value already, the value is as
\* before and no change event was triggered.  In every case
\* data-reset-textarea is absent afterwards.
C19_TextareaHoldsSerializationWhenSynchronised ==
  [][\A ta \in Textareas, via \in Vias :
       SwitchesToMarkdown(ta, via) =>
         LET view == page.created[Container(page, ta)]
             markdown == Serialize(view.doc)
             before == page.tas[ta]
             after == page'.tas[ta]
             stored == /\ after.selStart = AttrString(view.sel)
                       /\ after.selEnd = AttrString(view.sel)
                       /\ after.scrollY = AttrString(view.scroll)
         IN /\ Synchronises(ta, via) =>
                 /\ after.value = markdown
                 /\ IF markdown = before.value THEN stored ELSE ~HasSelectionData(after)
            /\ ~Synchronises(ta, via) =>
                 /\ after.value = before.value
                 /\ Parse(after.value) = view.doc
                 /\ after.selStart = before.selStart
                 /\ after.selEnd = before.selEnd
                 /\ after.scrollY = before.scrollY
            /\ markdown = before.value =>
                 /\ after.value = before.value
                 /\ <<ta, "change">> \notin page'.fired
            /\ ~after.reset]_vars

C19_Witness ==
  \E ta \in Textareas, i \in Removed :
    /\ page.created[i].ta = ta
    /\ page.switchers[ta] = {"data-markdown-enabled"}
    /\ page.focus = OnTextarea(ta)
    /\ page.tas[ta].value = Serialize(page.created[i].doc)
    /\ page.tas[ta].selStart = AttrString(1)
    /\ <<ta, "change">> \notin page.fired


=============================================================================
